---------------------------- MODULE Spec2Model ----------------------------
(***************************************************************************)
(* MoreSnowIterator (effect_moresnow.py): the tick-driven snow animation.  *)
(* One state variable per field of the iterator; one action, Tick, for a   *)
(* whole call of __next__.                                                 *)
(*                                                                         *)
(* The motion engine (terminaltexteffects.Motion) is outside the           *)
(* repository.  It is modelled by its contract: a path is a sequence of    *)
(* waypoints, a character with an active path that is ticked by update()   *)
(* moves to the next waypoint, and on reaching the last waypoint the       *)
(* active path becomes None.  A character keeps the speed of the path it   *)
(* was given last, as data: the multiplier of the configured               *)
(* movement_speed, and whether the uniform(0.7, 1.3) jitter was applied;   *)
(* the speed does not change the number of ticks a path takes.             *)
(*                                                                         *)
(* The random source is an input.  Its draws are enumerated, within these  *)
(* bounds: the sway draws of a path (SwayDraws) are shared by the paths    *)
(* built in one call, num_sways is drawn from SwayCounts, and a spawn      *)
(* count is drawn from the two ends of its range (CountDraws).             *)
(***************************************************************************)
EXTENDS Integers, Sequences, FiniteSets, TLC

(* ---- canvas and input text (bounds of the model) ---- *)
Left == 1
Bottom == 1
Right == 2
Top == 3
NText == 2
MaxTicks == 150

(* ---- constants of the program ---- *)
MaxPile == 5
FadeoutLimit == 100
SpawnLo == 3
SpawnHi == 6
FadeLo == 5
FadeHi == 10
SwayLo == 2
SwayHi == 4
AmountLo == 1
AmountHi == 3
TextDelay == 1
FadeDelay == 1
SpawnDelay == 2
FastMult == 5

VARIABLES
    chars,                  \* terminal.get_characters(): text index -> character
    pending_chars,          \* list of text indices not yet released
    active_characters,      \* set of character ids ticked by update()
    background_snow,        \* list of background characters
    bottom_pile_height,     \* dict column -> height
    text_spawn_delay,
    background_spawn_delay,
    text_complete,
    fadeout_counter,
    spawn_stopped,
    ticks,                  \* number of calls of __next__ so far
    updates,                \* number of calls of update() so far
    result,                 \* outcome of the last call: "none", "frame", "stop"
    piled,                  \* history: column -> number of distinct particles stacked there
    overflowed              \* history: columns where the landing check has removed a particle

vars == <<chars, pending_chars, active_characters, background_snow,
          bottom_pile_height, text_spawn_delay, background_spawn_delay,
          text_complete, fadeout_counter, spawn_stopped, ticks, updates,
          result, piled, overflowed>>

Columns == Left..Right
TextIds == DOMAIN chars

Coord(c, r) == [column |-> c, row |-> r]

Max(a, b) == IF a >= b THEN a ELSE b
Min(a, b) == IF a <= b THEN a ELSE b

(* Clamp without min(canvas.right, ...) *)
Clamp_LeftOnly(c) == Max(Left, c)

(* max(canvas.left, min(canvas.right, column)) *)
Clamp(c) == Max(Left, Min(Right, c))

(* sway_direction = 1 if i % 2 == 0 else -1 *)
SwayDirection(i) == IF i % 2 = 0 THEN 1 ELSE -1

(* current_column after the i-th sway: the running, unclamped column. *)
RECURSIVE RunningColumn(_, _, _)
RunningColumn(col, amounts, i) ==
    IF i = 0 THEN col
    ELSE RunningColumn(col, amounts, i - 1) + SwayDirection(i) * amounts[i]

(* sway_row = top - int(fall_distance * (i / num_sways)); the distance is   *)
(* never negative and int() truncates, so this is the integer quotient.    *)
SwayRow(fall_distance, i, num_sways) == Top - ((fall_distance * i) \div num_sways)

(* The waypoints added by the loop `for i in range(1, num_sways)`;         *)
(* amounts holds the num_sways - 1 draws of random.randint(1, 3).          *)
SwayWaypoints(col, fall_distance, amounts) ==
    [i \in 1..Len(amounts) |->
        Coord(Clamp(RunningColumn(col, amounts, i)),
              SwayRow(fall_distance, i, Len(amounts) + 1))]

(* The draws of one path: num_sways = random.randint(2, 4), then           *)
(* num_sways - 1 draws of random.randint(1, 3).  The model's random source *)
(* draws the counts of SwayCounts, and repeats the draws of a path for     *)
(* every path built in the same call (of build(), of __next__).            *)
SwayCounts == SwayLo..(SwayHi - 1)
SwayDraws == UNION {[1..(n - 1) -> AmountLo..AmountHi] : n \in SwayCounts}

Speed(mult, jitter) == [mult |-> mult, jitter |-> jitter]
NoPath == <<>>

(* Input coordinate of text character i: one column, rows bottom upward.   *)
InputCoord(i) == Coord(Left, Bottom + i - 1)

(* TextFallPath without the final waypoint at the input position *)
TextFallPath_NoFinalWaypoint(input, amounts) ==
    SwayWaypoints(input.column, Top - input.row, amounts)

(* TextFallPath ending on the bottom row, as the path of a snowflake does *)
TextFallPath_EndsOnFloor(input, amounts) ==
    Append(SwayWaypoints(input.column, Top - input.row, amounts),
           Coord(input.column, Bottom))

(* build(): the fall path of a text character, ending at its input_coord.  *)
TextFallPath(input, amounts) ==
    Append(SwayWaypoints(input.column, Top - input.row, amounts), input)

(* spawn_background_snowflake(): the fall path, ending on the bottom row.   *)
SnowFallPath(snow_col, amounts) ==
    Append(SwayWaypoints(snow_col, Top - Bottom, amounts),
           Coord(Clamp(RunningColumn(snow_col, amounts, Len(amounts))), Bottom))

SnowPaths == [c \in Columns |-> {SnowFallPath(c, a) : a \in SwayDraws}]

TextId(i) == <<0, i>>

(* build(): pending_chars.sort(key=row, reverse=True), a stable sort of    *)
(* the characters in terminal order (here index order).                    *)
RECURSIVE InsertByRowDesc(_, _)
InsertByRowDesc(sorted, i) ==
    IF sorted = <<>> THEN <<i>>
    ELSE IF InputCoord(Head(sorted)).row >= InputCoord(i).row
         THEN <<Head(sorted)>> \o InsertByRowDesc(Tail(sorted), i)
         ELSE <<i>> \o sorted

RECURSIVE SortedPending(_)
SortedPending(n) ==
    IF n = 0 THEN <<>> ELSE InsertByRowDesc(SortedPending(n - 1), n)

(* A text character as build() leaves it: above the canvas in its own     *)
(* column, its fall path activated, not yet in active_characters.          *)
TextChar(i, p) ==
    [input_coord |-> InputCoord(i),
     coord |-> Coord(InputCoord(i).column, Top),
     path |-> p,
     speed |-> Speed(1, TRUE),
     landings |-> 0]

(* __init__ and build(), for an input text of m characters *)
InitWith(m) ==
    /\ \E a \in SwayDraws :
          chars = [i \in 1..m |-> TextChar(i, TextFallPath(InputCoord(i), a))]
    /\ pending_chars = SortedPending(m)
    /\ active_characters = {}
    /\ background_snow = <<>>
    /\ bottom_pile_height = <<>>
    /\ text_spawn_delay = 0
    /\ background_spawn_delay = 0
    /\ text_complete = FALSE
    /\ fadeout_counter = 0
    /\ spawn_stopped = FALSE
    /\ ticks = 0
    /\ updates = 0
    /\ result = "none"
    /\ piled = [c \in Columns |-> 0]
    /\ overflowed = {}

Init == InitWith(NText)

(* the same, for an empty input text as well *)
InitTextOrNone == InitWith(0) \/ InitWith(NText)

(* ---- __next__, first block: release of text characters ---- *)

(* `if self.pending_chars: if self.text_spawn_delay <= 0:` *)
Releasing == pending_chars # <<>> /\ text_spawn_delay <= 0

(* list.pop(r), r counted from 1 here *)
RemoveAt(s, r) == SubSeq(s, 1, r - 1) \o SubSeq(s, r + 1, Len(s))

(* random.randint(0, len(pending_chars) - 1), counted from 1 here *)
PopChoices == IF Releasing THEN 1..Len(pending_chars) ELSE {0}

PendingAfter(r) == IF Releasing THEN RemoveAt(pending_chars, r) ELSE pending_chars

ReleasedIds(r) == IF Releasing THEN {TextId(pending_chars[r])} ELSE {}

(* TextDelayAfter without `self.text_spawn_delay = 1` after a release *)
TextDelayAfter_NeverSet ==
    IF pending_chars # <<>> /\ text_spawn_delay > 0
    THEN text_spawn_delay - 1 ELSE text_spawn_delay

TextDelayAfter ==
    IF pending_chars # <<>>
    THEN IF text_spawn_delay <= 0 THEN TextDelay ELSE text_spawn_delay - 1
    ELSE text_spawn_delay

(* ---- __next__, `elif not self.text_complete:` ---- *)

(* no text character of terminal.get_characters() has an active path *)
NoTextPathActive == \A i \in TextIds : chars[i].path = NoPath

(* Cutover without the loop over the characters' active paths *)
Cutover_IgnoresPaths == pending_chars = <<>> /\ ~text_complete

(* the branch is reached with pending_chars empty; all_text_landed *)
Cutover == pending_chars = <<>> /\ ~text_complete /\ NoTextPathActive

(* text_complete assigned from all_text_landed on every call *)
TextCompleteAfter_Reassigned == Cutover

TextCompleteAfter == text_complete \/ Cutover

(* FastPath aimed at the column of the old path's last waypoint *)
FastPath_OldDestination(snow) ==
    IF snow.path # NoPath
    THEN [snow EXCEPT !.path = <<Coord(snow.path[Len(snow.path)].column, Bottom)>>,
                      !.speed = Speed(FastMult, FALSE)]
    ELSE snow

(* the new fast path of one background character *)
FastPath(snow) ==
    IF snow.path # NoPath
    THEN [snow EXCEPT !.path = <<Coord(snow.coord.column, Bottom)>>,
                      !.speed = Speed(FastMult, FALSE)]
    ELSE snow

SpeedUp(snowlist) == [k \in 1..Len(snowlist) |-> FastPath(snowlist[k])]

SnowAfterCutover == IF Cutover THEN SpeedUp(background_snow) ELSE background_snow

(* ---- __next__, `if not self.spawn_stopped:` ---- *)

(* the fadeout counter never incremented *)
FadeoutAfter_Stuck == fadeout_counter

FadeoutAfter ==
    IF ~spawn_stopped /\ TextCompleteAfter THEN fadeout_counter + 1 ELSE fadeout_counter

(* SpawnStoppedAfter with `>=` for `>` in the test of the counter *)
SpawnStoppedAfter_AtLimit ==
    spawn_stopped \/ (TextCompleteAfter /\ FadeoutAfter >= FadeoutLimit)

SpawnStoppedAfter ==
    spawn_stopped \/ (TextCompleteAfter /\ FadeoutAfter > FadeoutLimit)

(* SpawnsNow without the test of spawn_stopped *)
SpawnsNow_IgnoresStop == background_spawn_delay <= 0

(* this tick reaches one of the two spawning loops *)
SpawnsNow == ~SpawnStoppedAfter /\ background_spawn_delay <= 0

(* the draws of random.randint(lo, hi) for a spawn count *)
CountDraws(lo, hi) == {lo, hi}

(* random.randint(5, 10) during fadeout, random.randint(3, 6) before *)
SpawnCounts ==
    IF ~SpawnsNow THEN {0}
    ELSE IF TextCompleteAfter THEN CountDraws(FadeLo, FadeHi)
                              ELSE CountDraws(SpawnLo, SpawnHi)

(* the fall paths a tick that spawns n flakes can draw *)
PathChoices(n) == IF n = 0 THEN {NoPath} ELSE UNION {SnowPaths[c] : c \in Columns}

(* snow_col = random.randint(canvas.left, canvas.right): a column the path *)
(* p is drawn from.  A flake leaves its start coordinate in the update()   *)
(* of the call that spawns it (that call never stops: the list is not      *)
(* empty), so one start column for each path gives every state a call can  *)
(* end in.                                                                 *)
StartColumn(n, p) == IF n = 0 THEN Left ELSE CHOOSE c \in Columns : p \in SnowPaths[c]

(* SpawnMult with the multipliers of the two phases exchanged *)
SpawnMult_Exchanged == IF TextCompleteAfter THEN 1 ELSE FastMult

SpawnMult == IF TextCompleteAfter THEN FastMult ELSE 1

(* BackgroundDelayAfter with the delay of the fadeout in both phases *)
BackgroundDelayAfter_FadeDelay ==
    IF SpawnStoppedAfter THEN background_spawn_delay
    ELSE IF background_spawn_delay <= 0 THEN FadeDelay
         ELSE background_spawn_delay - 1

BackgroundDelayAfter ==
    IF SpawnStoppedAfter THEN background_spawn_delay
    ELSE IF background_spawn_delay <= 0
         THEN (IF TextCompleteAfter THEN FadeDelay ELSE SpawnDelay)
         ELSE background_spawn_delay - 1

(* spawn_background_snowflake(speed_multiplier): the k-th flake of a tick  *)
NewSnowflake(k, snow_col, p, mult) ==
    [id |-> <<ticks + 1, k>>,
     coord |-> Coord(snow_col, Top),
     path |-> p,
     speed |-> Speed(mult, TRUE),
     stacks |-> 0]

(* the flakes spawned by one tick, in the order they are appended *)
SpawnBatch(n, snow_col, p) ==
    [k \in 1..n |-> NewSnowflake(k, snow_col, p, SpawnMult)]

SnowIds(snowlist) == {snowlist[k].id : k \in 1..Len(snowlist)}

(* ---- check_background_snow_landing ---- *)

(* PileWith that makes a new dict for the landing column *)
PileWith_NewDict(pile, col) ==
    [c \in {col} |-> IF c \in DOMAIN pile THEN pile[c] ELSE 0]

(* `if landing_column not in self.bottom_pile_height: ... = 0` *)
PileWith(pile, col) ==
    IF col \in DOMAIN pile THEN pile
    ELSE [c \in DOMAIN pile \cup {col} |-> IF c = col THEN 0 ELSE pile[c]]

(* LandOne without `self.bottom_pile_height[landing_column] += 1` *)
LandOne_NoIncrement(st, snow) ==
    IF snow.path # NoPath
    THEN [st EXCEPT !.snow = Append(@, snow)]
    ELSE LET col == snow.coord.column
             pile == PileWith(st.pile, col)
         IN IF pile[col] < MaxPile
            THEN [st EXCEPT !.snow = Append(@, [snow EXCEPT
                                !.coord = Coord(col, Bottom - pile[col]),
                                !.stacks = @ + 1]),
                            !.pile = pile]
            ELSE [st EXCEPT !.pile = pile, !.overflowed = @ \cup {col}]

(* LandOne with `<=` for `<` in the height test *)
LandOne_OffByOne(st, snow) ==
    IF snow.path # NoPath
    THEN [st EXCEPT !.snow = Append(@, snow)]
    ELSE LET col == snow.coord.column
             pile == PileWith(st.pile, col)
         IN IF pile[col] <= MaxPile
            THEN [st EXCEPT !.snow = Append(@, [snow EXCEPT
                                !.coord = Coord(col, Bottom - pile[col]),
                                !.stacks = @ + 1]),
                            !.pile = [pile EXCEPT ![col] = @ + 1]]
            ELSE [st EXCEPT !.pile = pile, !.overflowed = @ \cup {col}]

(* LandOne without background_snow.remove(snow) in the full-column branch *)
LandOne_KeepsFull(st, snow) ==
    IF snow.path # NoPath
    THEN [st EXCEPT !.snow = Append(@, snow)]
    ELSE LET col == snow.coord.column
             pile == PileWith(st.pile, col)
         IN IF pile[col] < MaxPile
            THEN [st EXCEPT !.snow = Append(@, [snow EXCEPT
                                !.coord = Coord(col, Bottom - pile[col]),
                                !.stacks = @ + 1]),
                            !.pile = [pile EXCEPT ![col] = @ + 1]]
            ELSE [st EXCEPT !.snow = Append(@, snow), !.pile = pile,
                            !.overflowed = @ \cup {col}]

(* The body of the loop for one character of the snapshot.  st.snow is the *)
(* part of background_snow before that character as the loop leaves it:    *)
(* a stacked character stays in its place, a removed one is left out       *)
(* (background_snow.remove(snow)); st.pile is bottom_pile_height and       *)
(* st.piled, st.overflowed the two histories.                              *)
LandOne(st, snow) ==
    IF snow.path # NoPath
    THEN [st EXCEPT !.snow = Append(@, snow)]
    ELSE LET col == snow.coord.column
             pile == PileWith(st.pile, col)
         IN IF pile[col] < MaxPile
            THEN [snow |-> Append(st.snow,
                              [snow EXCEPT !.coord = Coord(col, Bottom - pile[col]),
                                           !.stacks = @ + 1]),
                  pile |-> [pile EXCEPT ![col] = @ + 1],
                  piled |-> IF snow.stacks = 0
                            THEN [st.piled EXCEPT ![col] = @ + 1]
                            ELSE st.piled,
                  overflowed |-> st.overflowed]
            ELSE [snow |-> st.snow,
                  pile |-> pile,
                  piled |-> st.piled,
                  overflowed |-> st.overflowed \cup {col}]

(* `for snow in list(self.background_snow):` over the snapshot, in order   *)
(* (each step is bound as a value, so that it is evaluated once)           *)
RECURSIVE LandFrom(_, _, _)
LandFrom(snapshot, i, st) ==
    IF i > Len(snapshot) THEN st
    ELSE CHOOSE done \in {LandFrom(snapshot, i + 1, next) :
                            next \in {LandOne(st, snapshot[i])}} : TRUE

(* CheckLanding with the loop running over the list from its end *)
CheckLanding_Reversed(snowlist, pile, hist, over) ==
    LET n == Len(snowlist)
        st == LandFrom([k \in 1..n |-> snowlist[n + 1 - k]], 1,
                       [snow |-> <<>>, pile |-> pile, piled |-> hist,
                        overflowed |-> over])
    IN [st EXCEPT !.snow = [k \in 1..Len(@) |-> @[Len(@) + 1 - k]]]

CheckLanding(snowlist, pile, hist, over) ==
    LandFrom(snowlist, 1,
             [snow |-> <<>>, pile |-> pile, piled |-> hist, overflowed |-> over])

(* ---- update(): the engine ticks every active character ---- *)

MoveSnow(snow) ==
    IF snow.path = NoPath THEN snow
    ELSE [snow EXCEPT !.coord = Head(snow.path), !.path = Tail(snow.path)]

(* a text character: on PATH_COMPLETE the landed scene is activated *)
MoveText(ch) ==
    IF ch.path = NoPath THEN ch
    ELSE [ch EXCEPT !.coord = Head(ch.path),
                    !.path = Tail(ch.path),
                    !.landings = IF Tail(ch.path) = NoPath THEN @ + 1 ELSE @]

UpdateSnow(snowlist, active) ==
    [k \in 1..Len(snowlist) |->
        IF snowlist[k].id \in active THEN MoveSnow(snowlist[k]) ELSE snowlist[k]]

UpdateText(active) ==
    [i \in TextIds |-> IF TextId(i) \in active THEN MoveText(chars[i]) ELSE chars[i]]

(* update() drops the characters that are no longer active *)
StillActive(snowlist, text, active) ==
    {snowlist[k].id : k \in {j \in 1..Len(snowlist) :
                                snowlist[j].id \in active /\ snowlist[j].path # NoPath}}
    \cup {TextId(i) : i \in {j \in TextIds :
                                TextId(j) \in active /\ text[j].path # NoPath}}

(* the stop test without the length of background_snow *)
StopNow_IgnoresSnow(stopped, snowlist) == stopped

(* `if self.spawn_stopped and len(self.background_snow) == 0` *)
StopNow(stopped, snowlist) == stopped /\ Len(snowlist) = 0

(* ---- __next__ ---- *)
(* The caller stops asking after StopIteration.  MaxTicks caps the number  *)
(* of calls; every run ends before it gets there.                          *)
Tick ==
    /\ result # "stop"
    /\ ticks < MaxTicks
    /\ \E r \in PopChoices, n \in SpawnCounts :
       \E p \in PathChoices(n) :
       \E spawned \in {SpawnBatch(n, StartColumn(n, p), p)} :
       \E active \in {active_characters \cup ReleasedIds(r) \cup SnowIds(spawned)} :
       \E snapshot \in {SnowAfterCutover \o spawned} :
       \E landed \in {CheckLanding(snapshot, bottom_pile_height, piled, overflowed)} :
       \E stop \in {StopNow(SpawnStoppedAfter, landed.snow)} :
       \E text \in {IF stop THEN chars ELSE UpdateText(active)} :
       \E snow \in {IF stop THEN landed.snow ELSE UpdateSnow(landed.snow, active)} :
            /\ pending_chars' = PendingAfter(r)
            /\ text_spawn_delay' = TextDelayAfter
            /\ text_complete' = TextCompleteAfter
            /\ fadeout_counter' = FadeoutAfter
            /\ spawn_stopped' = SpawnStoppedAfter
            /\ background_spawn_delay' = BackgroundDelayAfter
            /\ bottom_pile_height' = landed.pile
            /\ piled' = landed.piled
            /\ overflowed' = landed.overflowed
            /\ chars' = text
            /\ background_snow' = snow
            /\ active_characters' =
                  IF stop THEN active ELSE StillActive(snow, text, active)
            /\ result' = IF stop THEN "stop" ELSE "frame"
            /\ updates' = IF stop THEN updates ELSE updates + 1
            /\ ticks' = ticks + 1

Next == Tick

Spec == Init /\ [][Next]_vars

(* the caller asks for frames until StopIteration *)
FairSpec == Spec /\ WF_vars(Tick)

TextOrNoneSpec == InitTextOrNone /\ [][Next]_vars

(***************************************************************************)
(* The claims.                                                             *)
(***************************************************************************)

(* 0 spawning, 1 fading-out, 2 spawn-stopped *)
Phase == IF spawn_stopped THEN 2 ELSE IF text_complete THEN 1 ELSE 0

(* background particle s has no active path and sits in a column whose     *)
(* recorded height is MaxPile                                              *)
LandsOnFullColumn(s) ==
    /\ s.path = NoPath
    /\ s.coord.column \in DOMAIN bottom_pile_height
    /\ bottom_pile_height[s.coord.column] = MaxPile

PileWithinCap ==
    \A c \in DOMAIN bottom_pile_height : bottom_pile_height[c] \in 0..MaxPile

FullColumnDiscards ==
    \A k \in 1..Len(background_snow) :
        LandsOnFullColumn(background_snow[k]) =>
            /\ background_snow[k].id \notin SnowIds(background_snow')
            /\ bottom_pile_height'[background_snow[k].coord.column] = MaxPile

(* C1: every recorded pile height is in 0..5, and a call whose landing     *)
(* check meets a particle without an active path in a column of height 5   *)
(* removes that particle and leaves the height at 5.                       *)
C1_PileCap == []PileWithinCap /\ [][FullColumnDiscards]_vars

(* a column is at height 5 and the landing check has removed a particle there *)
C1_Witness == \E c \in overflowed : bottom_pile_height[c] = MaxPile

(* C2: the phase never goes back: text_complete and spawn_stopped are      *)
(* never reset, and spawn_stopped is never true while text_complete is     *)
(* false.                                                                  *)
C2_PhaseMonotone ==
    /\ [](spawn_stopped => text_complete)
    /\ [][/\ Phase' >= Phase
          /\ text_complete => text_complete'
          /\ spawn_stopped => spawn_stopped']_vars

(* the last phase is reached *)
C2_Witness == Phase = 2 /\ fadeout_counter = FadeoutLimit + 1

(* C3: a call signals StopIteration exactly when, after its landing check, *)
(* spawn_stopped holds and background_snow is empty; it then does not      *)
(* update; every other call updates exactly once and returns a frame.      *)
C3_StopIffDone ==
    [][/\ (result' = "stop") <=> (spawn_stopped' /\ Len(background_snow') = 0)
       /\ (result' = "stop") => (updates' = updates /\ chars' = chars)
       /\ (result' # "stop") => (result' = "frame" /\ updates' = updates + 1)]_vars

(* a call has signalled StopIteration after calls that returned frames *)
C3_Witness == result = "stop" /\ updates = ticks - 1 /\ updates > 0

(* C4: some call eventually signals StopIteration. *)
C4_Terminates == <>(result = "stop")

(* the run has ended, after the whole fadeout *)
C4_Witness == result = "stop" /\ ticks > FadeoutLimit /\ ticks < MaxTicks

TextLanded(ch) ==
    ch.path = NoPath /\ ch.coord = ch.input_coord /\ ch.landings = 1

(* C5: every text character is eventually released and lands; a text      *)
(* character without an active path is at its input coordinate, its path   *)
(* has completed exactly once, and from then on it does not change.        *)
C5_TextLandsOnce ==
    /\ <>(pending_chars = <<>> /\ \A i \in DOMAIN chars : TextLanded(chars[i]))
    /\ [](\A i \in DOMAIN chars :
            /\ chars[i].landings <= 1
            /\ chars[i].path = NoPath => TextLanded(chars[i]))
    /\ [][\A i \in DOMAIN chars :
            chars[i].path = NoPath => chars'[i] = chars[i]]_vars

(* all the text characters have landed, each at its input coordinate *)
C5_Witness ==
    /\ DOMAIN chars # {}
    /\ pending_chars = <<>>
    /\ \A i \in DOMAIN chars : TextLanded(chars[i])

(* C6: text_complete is set by exactly the calls that begin with           *)
(* pending_chars empty and no text character holding an active path, so    *)
(* it is never set while a text character is pending or falling; with no   *)
(* text characters the first call sets it.                                 *)
C6_CutoverWhenTextLanded ==
    /\ [][(~text_complete /\ text_complete') <=>
            (/\ ~text_complete
             /\ pending_chars = <<>>
             /\ \A i \in DOMAIN chars : chars[i].path = NoPath)]_vars
    /\ [](text_complete =>
            (pending_chars = <<>> /\ \A i \in DOMAIN chars : chars[i].path = NoPath))
    /\ []((DOMAIN chars = {} /\ ticks >= 1) => text_complete)

(* the call after the last text character landed has set text_complete *)
C6_Witness ==
    /\ DOMAIN chars # {}
    /\ text_complete
    /\ fadeout_counter = 1
    /\ \A i \in DOMAIN chars : TextLanded(chars[i])

(* the character of snowlist with this id; the id is in the list *)
SnowById(snowlist, id) ==
    snowlist[CHOOSE k \in 1..Len(snowlist) : snowlist[k].id = id]

CutoverStep == ~text_complete /\ text_complete'

(* what the cutover, and then the call it is part of, make of background   *)
(* particle s                                                              *)
FastForwarded(s) ==
    IF s.path # NoPath
    THEN /\ FastPath(s).path = <<Coord(s.coord.column, Bottom)>>
         /\ FastPath(s).coord = s.coord
         /\ s.id \in SnowIds(background_snow')
         /\ SnowById(background_snow', s.id).coord = Coord(s.coord.column, Bottom)
         /\ SnowById(background_snow', s.id).path = NoPath
         /\ SnowById(background_snow', s.id).speed = Speed(FastMult, FALSE)
    ELSE /\ FastPath(s) = s
         /\ s.id \in SnowIds(background_snow') =>
            /\ SnowById(background_snow', s.id).coord.column = s.coord.column
            /\ SnowById(background_snow', s.id).path = NoPath
            /\ SnowById(background_snow', s.id).speed = s.speed

C8_RemovedForGood ==
    [][/\ \A k \in 1..Len(background_snow) :
            LandsOnFullColumn(background_snow[k]) =>
                background_snow[k].id \notin SnowIds(background_snow')
       /\ \A id \in SnowIds(background_snow') :
            id \in SnowIds(background_snow) \/ id[1] = ticks'
       /\ \A id \in SnowIds(background_snow) : id[1] <= ticks
       /\ \A id \in active_characters' :
            id[1] = 0 \/ id \in SnowIds(background_snow')
       /\ Cardinality(SnowIds(background_snow')) = Len(background_snow')]_vars

(* every column has had a particle removed, and the list has emptied *)
C8_Witness == overflowed = Columns /\ background_snow = <<>> /\ ticks > 0

(* C9: the height of a column is the number of distinct particles that     *)
(* have been stacked in it.                                                *)
C9_HeightCountsParticles ==
    \A c \in DOMAIN bottom_pile_height : bottom_pile_height[c] = piled[c]

(* C10: no call lowers the height of a column or deletes a column from     *)
(* bottom_pile_height.                                                     *)
C10_PileMonotone ==
    [][\A c \in DOMAIN bottom_pile_height :
          /\ c \in DOMAIN bottom_pile_height'
          /\ bottom_pile_height'[c] >= bottom_pile_height[c]]_vars

(* the run has ended with a full column: removals, the cutover and the     *)
(* termination have all happened                                           *)
C10_Witness ==
    /\ result = "stop"
    /\ \E c \in DOMAIN bottom_pile_height : bottom_pile_height[c] = MaxPile

(* the members of a list *)
Range(s) == {s[k] : k \in 1..Len(s)}

(* the text characters a call releases *)
Released == Range(pending_chars) \ Range(pending_chars')

(* C11: a text character is never released while a text character of a    *)
(* row nearer the bottom (a smaller row) is still pending.                 *)
C11_BottomFirst ==
    [][\A i \in Released : \A j \in Range(pending_chars') :
          chars[j].input_coord.row >= chars[i].input_coord.row]_vars

(* C12: once spawn_stopped holds no background particle is created (the    *)
(* call that sets it creates none either): background_snow only loses      *)
(* members, and fadeout_counter and background_spawn_delay stay as they    *)
(* are.                                                                    *)
C12_NoSpawnAfterStop ==
    [][/\ spawn_stopped' => SnowIds(background_snow') \subseteq SnowIds(background_snow)
       /\ spawn_stopped =>
            /\ Len(background_snow') <= Len(background_snow)
            /\ fadeout_counter' = fadeout_counter
            /\ background_spawn_delay' = background_spawn_delay]_vars

(* after the spawning has stopped, particles that have all landed are      *)
(* still in the list                                                       *)
C12_Witness ==
    /\ spawn_stopped
    /\ result = "frame"
    /\ background_snow # <<>>
    /\ \A k \in 1..Len(background_snow) : background_snow[k].path = NoPath

(* C13: the pool never gains a member and loses at most one per call; a    *)
(* call that begins with the pool not empty and the delay at 0 (the first  *)
(* call is one) releases exactly one character into active_characters and  *)
(* sets the delay to 1; a call that begins with the delay at 1 releases    *)
(* none and sets it to 0, so releases are never on consecutive calls and   *)
(* the pool shrinks every second call until it is empty; the released      *)
(* character can be any member of the pool.                                *)
C13_OneReleaseEverySecondTick ==
    /\ [](text_spawn_delay \in {0, TextDelay})
    /\ [](ticks = 0 => text_spawn_delay = 0)
    /\ [](Releasing =>
            \A r \in 1..Len(pending_chars) :
                ENABLED (Tick /\ pending_chars' = RemoveAt(pending_chars, r)))
    /\ [][/\ Range(pending_chars') \subseteq Range(pending_chars)
          /\ Cardinality(Released) <= 1
          /\ (pending_chars # <<>> /\ text_spawn_delay <= 0) =>
               /\ Cardinality(Released) = 1
               /\ Len(pending_chars') = Len(pending_chars) - 1
               /\ \A i \in Released : TextId(i) \in active_characters'
               /\ text_spawn_delay' = TextDelay
          /\ (pending_chars # <<>> /\ text_spawn_delay > 0) =>
               /\ Released = {}
               /\ text_spawn_delay' = 0]_vars

(* the pool has emptied as early as it can: a release on every second call *)
C13_Witness ==
    /\ DOMAIN chars # {}
    /\ pending_chars = <<>>
    /\ ticks = 2 * Cardinality(DOMAIN chars) - 1

(* the background particles a call creates *)
Created == SnowIds(background_snow') \ SnowIds(background_snow)

(* the particle of background_snow' with this id *)
CreatedSnow(id) == SnowById(background_snow', id)

(* a call of the spawning phase: it leaves text_complete false *)
SpawningTick == ~text_complete'

(* C14, as stated: every call of the spawning phase decrements the delay,  *)
(* and the call in which it reaches zero creates 3 to 6 particles and      *)
(* resets it to 2; every other call creates none.                          *)
C14_DecrementedEveryTick ==
    [][SpawningTick =>
         IF background_spawn_delay - 1 = 0
         THEN /\ Cardinality(Created) \in SpawnLo..SpawnHi
              /\ background_spawn_delay' = SpawnDelay
         ELSE /\ Created = {}
              /\ background_spawn_delay' = background_spawn_delay - 1]_vars

(* C14, amended: a call of the spawning phase that begins with the delay   *)
(* at zero creates 3 to 6 particles, at the base speed, and sets the delay *)
(* to 2; every other call of the phase creates none and decrements the     *)
(* delay by one; so a call of the phase creates 0 or 3 to 6 particles.     *)
C14_SpawnWhenZero ==
    /\ [](background_spawn_delay \in 0..SpawnDelay)
    /\ [][SpawningTick =>
            /\ Cardinality(Created) \in {0} \cup (SpawnLo..SpawnHi)
            /\ IF background_spawn_delay <= 0
               THEN /\ Cardinality(Created) \in SpawnLo..SpawnHi
                    /\ \A id \in Created : CreatedSnow(id).speed = Speed(1, TRUE)
                    /\ background_spawn_delay' = SpawnDelay
               ELSE /\ Created = {}
                    /\ background_spawn_delay' = background_spawn_delay - 1]_vars

(* the second batch of the spawning phase has just been created, three     *)
(* calls after the first                                                   *)
C14_Witness ==
    /\ ~text_complete
    /\ ticks = SpawnDelay + 2
    /\ background_spawn_delay = SpawnDelay
    /\ \E k \in 1..Len(background_snow) : background_snow[k].id[1] = ticks

(* a call of the fading-out phase: text_complete holds when it reaches the *)
(* spawn block and its increment leaves the fadeout counter at most 100    *)
FadingTick == text_complete' /\ ~spawn_stopped'

(* C15, as stated: every call of the fading-out phase creates 5 to 10      *)
(* particles, each at 5 times the speed.                                   *)
C15_SpawnsEveryFadingTick ==
    [][FadingTick =>
         /\ fadeout_counter' <= FadeoutLimit
         /\ Cardinality(Created) \in FadeLo..FadeHi
         /\ \A id \in Created : CreatedSnow(id).speed = Speed(FastMult, TRUE)]_vars

(* C15, amended: a call of the fading-out phase that begins with the delay *)
(* at zero creates 5 to 10 particles, each at 5 times the speed, and sets  *)
(* the delay to 1; every other call of the phase creates none and          *)
(* decrements the delay by one.                                            *)
C15_SpawnWhenZeroInFadeout ==
    [][FadingTick =>
         /\ fadeout_counter' <= FadeoutLimit
         /\ IF background_spawn_delay <= 0
            THEN /\ Cardinality(Created) \in FadeLo..FadeHi
                 /\ \A id \in Created : CreatedSnow(id).speed = Speed(FastMult, TRUE)
                 /\ background_spawn_delay' = FadeDelay
            ELSE /\ Created = {}
                 /\ background_spawn_delay' = background_spawn_delay - 1]_vars

(* the last call of the fading-out phase has created fast particles *)
C15_Witness ==
    /\ text_complete
    /\ ~spawn_stopped
    /\ fadeout_counter = FadeoutLimit
    /\ \E k \in 1..Len(background_snow) :
          /\ background_snow[k].id[1] = ticks
          /\ background_snow[k].speed = Speed(FastMult, TRUE)

(* C16: fadeout_counter is 0 while text_complete is false, is 1 after the  *)
(* call of the cutover and grows by exactly 1 in every call from then on   *)
(* until spawn_stopped holds; spawn_stopped holds exactly when the counter *)
(* is 101, so the phase is fading-out exactly while it is in 1..100; the   *)
(* call that sets spawn_stopped creates no particle; no call among the     *)
(* first 100 of a run signals StopIteration.                               *)
C16_FadeoutCount ==
    /\ [](~text_complete => fadeout_counter = 0)
    /\ [](spawn_stopped <=> fadeout_counter = FadeoutLimit + 1)
    /\ [](Phase = 1 <=> fadeout_counter \in 1..FadeoutLimit)
    /\ [](result = "stop" => ticks >= FadeoutLimit + 1)
    /\ [][/\ CutoverStep => fadeout_counter' = 1
          /\ (text_complete' /\ ~spawn_stopped) => fadeout_counter' = fadeout_counter + 1
          /\ spawn_stopped => fadeout_counter' = fadeout_counter
          /\ (~spawn_stopped /\ spawn_stopped') => Created = {}]_vars

(* StopIteration in the 101st call of a run *)
C16_Witness == result = "stop" /\ ticks = FadeoutLimit + 1

(* the place in snowlist of the character with this id *)
IndexOf(snowlist, id) == CHOOSE k \in 1..Len(snowlist) : snowlist[k].id = id

(* the recorded height of a column, 0 for a column not yet in the dict *)
HeightOf(c) == IF c \in DOMAIN bottom_pile_height THEN bottom_pile_height[c] ELSE 0

(* the particles without an active path in column c among the first n of   *)
(* background_snow                                                         *)
LandedBefore(n, c) ==
    {j \in 1..n : /\ background_snow[j].path = NoPath
                  /\ background_snow[j].coord.column = c}

(* the height the landing check finds when it comes to the k-th particle,  *)
(* when that is below 5; at least 5 when it finds the column full          *)
HeightFound(k) ==
    HeightOf(background_snow[k].coord.column)
        + Cardinality(LandedBefore(k - 1, background_snow[k].coord.column))

(* C17: in one call the particles without an active path are handled in    *)
(* the order of the list: the k-th one finds its column at the height      *)
(* recorded before the call plus the number of such particles before it    *)
(* in the list and in its column; below 5 it is placed on row bottom minus *)
(* that height, else it is removed; the column ends at the smaller of 5    *)
(* and the old height plus the number of such particles; the particles     *)
(* that stay keep their order.                                             *)
C17_StackedInListOrder ==
    [][/\ \A k \in 1..Len(background_snow) :
            background_snow[k].path = NoPath =>
                IF HeightFound(k) < MaxPile
                THEN /\ background_snow[k].id \in SnowIds(background_snow')
                     /\ SnowById(background_snow', background_snow[k].id).coord
                          = Coord(background_snow[k].coord.column,
                                  Bottom - HeightFound(k))
                ELSE background_snow[k].id \notin SnowIds(background_snow')
       /\ \A c \in Columns :
            LandedBefore(Len(background_snow), c) # {} =>
                bottom_pile_height'[c] =
                    Min(MaxPile, HeightOf(c)
                                   + Cardinality(LandedBefore(Len(background_snow), c)))
       /\ \A k \in 1..(Len(background_snow') - 1) :
            background_snow'[k + 1].id \in SnowIds(background_snow) =>
                /\ background_snow'[k].id \in SnowIds(background_snow)
                /\ IndexOf(background_snow, background_snow'[k].id)
                     < IndexOf(background_snow, background_snow'[k + 1].id)]_vars

(* six particles have landed together in an empty column: five are stacked *)
(* on the rows bottom, bottom - 1, ..., the sixth has been removed         *)
C17_Witness ==
    \E c \in overflowed :
        \A h \in 0..(MaxPile - 1) :
            \E k \in 1..Len(background_snow) :
                /\ background_snow[k].path = NoPath
                /\ background_snow[k].stacks = 1
                /\ background_snow[k].coord = Coord(c, Bottom - h)

(* every draw of random.randint(2, 4) and of the random.randint(1, 3) that *)
(* follow it                                                               *)
AllSwayDraws == UNION {[1..(n - 1) -> AmountLo..AmountHi] : n \in SwayLo..SwayHi}

(* the running column after the k-th offset, k <= 3: the offsets d go left,*)
(* right, left                                                             *)
ShiftedColumn(col, d, k) ==
    IF k = 1 THEN col - d[1]
    ELSE IF k = 2 THEN col - d[1] + d[2]
    ELSE col - d[1] + d[2] - d[3]

(* column c brought into [left, right] *)
WithinCanvas(c) == IF c < Left THEN Left ELSE IF c > Right THEN Right ELSE c

(* path is a fall path from column col drawn with the offsets d *)
FallPathShape(path, col, d) ==
    /\ Len(path) = Len(d) + 1
    /\ Len(path) \in SwayLo..SwayHi
    /\ \A k \in 1..Len(path) :
          /\ path[k].column \in Left..Right
          /\ path[k].row \in path[Len(path)].row..Top
          /\ k < Len(path) =>
                /\ path[k].row >= path[k + 1].row
                /\ path[k].column = WithinCanvas(ShiftedColumn(col, d, k))

(* every column and every waypoint of the state is on the canvas *)
ColumnsWithinCanvas ==
    /\ DOMAIN bottom_pile_height \subseteq Left..Right
    /\ \A k \in 1..Len(background_snow) :
          /\ background_snow[k].coord.column \in Left..Right
          /\ \A w \in 1..Len(background_snow[k].path) :
                background_snow[k].path[w].column \in Left..Right
    /\ \A i \in DOMAIN chars :
          /\ chars[i].coord.column \in Left..Right
          /\ \A w \in 1..Len(chars[i].path) : chars[i].path[w].column \in Left..Right

(* C18: a fall path starts on the top row, has num_sways - 1 intermediate  *)
(* waypoints, num_sways in 2..4, each in a column of [left, right] that is *)
(* the running column, shifted by 1 to 3 to the left, right, left in turn, *)
(* brought into [left, right], on rows that do not rise, and ends at the   *)
(* input coordinate (text) or on the bottom row in [left, right]           *)
(* (background); so every column of the pile map is in [left, right].      *)
(* The paths that can be drawn do not depend on the state: they are        *)
(* enumerated once, in the initial state, for every draw of AllSwayDraws.  *)
C18_FallPaths ==
    /\ ColumnsWithinCanvas
    /\ \A i \in Range(pending_chars) :
          /\ chars[i].coord = Coord(chars[i].input_coord.column, Top)
          /\ chars[i].path[Len(chars[i].path)] = chars[i].input_coord
          /\ \E d \in AllSwayDraws :
                FallPathShape(chars[i].path, chars[i].input_coord.column, d)
    /\ ticks = 0 => \A d \in AllSwayDraws :
          /\ \A i \in DOMAIN chars :
                LET path == TextFallPath(chars[i].input_coord, d)
                IN  /\ FallPathShape(path, chars[i].input_coord.column, d)
                    /\ path[Len(path)] = chars[i].input_coord
          /\ \A c \in Columns :
                LET snow == NewSnowflake(1, c, SnowFallPath(c, d), SpawnMult)
                IN  /\ snow.coord = Coord(c, Top)
                    /\ FallPathShape(snow.path, c, d)
                    /\ snow.path[Len(snow.path)] =
                          Coord(WithinCanvas(ShiftedColumn(c, d, Len(d))), Bottom)

(* both columns hold a pile, and a background particle is on a sway        *)
(* waypoint in another column than the one it will land in                 *)
C18_Witness ==
    /\ DOMAIN bottom_pile_height = Columns
    /\ \E k \in 1..Len(background_snow) :
          /\ background_snow[k].path # NoPath
          /\ background_snow[k].coord.column
                # background_snow[k].path[Len(background_snow[k].path)].column

(* C19: when a call has signalled StopIteration, no text character is      *)
(* pending and every text character is without an active path, at its      *)
(* input coordinate.                                                       *)
C19_StopOnlyAfterText ==
    result = "stop" =>
        /\ pending_chars = <<>>
        /\ text_complete
        /\ \A i \in DOMAIN chars :
              chars[i].path = NoPath /\ chars[i].coord = chars[i].input_coord

(* StopIteration, with a text that has landed and nothing left to tick *)
C19_Witness ==
    /\ result = "stop"
    /\ DOMAIN chars # {}
    /\ active_characters = {}
    /\ \A i \in DOMAIN chars : chars[i].coord = chars[i].input_coord

Restacked(k) ==
    IF background_snow[k].id \notin SnowIds(background_snow')
    THEN /\ HeightFound(k) >= MaxPile
         /\ bottom_pile_height'[background_snow[k].coord.column] = MaxPile
    ELSE LET after == SnowById(background_snow', background_snow[k].id)
         IN  /\ after.stacks = background_snow[k].stacks + 1
             /\ after.coord.row = Bottom - HeightFound(k)
             /\ background_snow[k].stacks > 0 =>
                    after.coord.row < background_snow[k].coord.row
             /\ bottom_pile_height'[after.coord.column]
                    > HeightOf(after.coord.column)

=============================================================================
